---- MODULE Spec2Model ----
(***************************************************************************)
(* Model of the bounding-box coordinate transforms and of the sliding      *)
(* window partitioner of rocc-pipelines.                                   *)
(*                                                                         *)
(* Two specifications share the variables:                                 *)
(*   Spec       - calls of calculate_sliding_windows (one loop iteration   *)
(*                per step) and of the generator                           *)
(*                calculate_window_coordinates (one yield per step);       *)
(*   SpecExport - calls of scale_point, calculate_bounding_box and         *)
(*                export_yolov5_annotation.                                *)
(* A driver calls one function at a time: pc = "idle" between calls.       *)
(*                                                                         *)
(* Python floats are modelled by exact rationals <<numerator, denominator>>*)
(* with a positive denominator.  On the sizes used here (all below 14) the *)
(* double-precision products x * (export / original) round to the same     *)
(* integer as the exact quotient.                                          *)
(***************************************************************************)
EXTENDS Integers, Sequences, FiniteSets, TLC

\* ---------------------------------------------------------------- bounds
MaxWindow == 3
MaxStride == 3
MaxLimit == 6
MaxImage == 4
MaxImageStride == 2
MaxSize == 3
MaxCoord == 4
MaxLabel == 1

\* Cap on the iterations of the window loop: with stride >= 1 the loop leaves
\* after at most limit / 2 + 1 iterations, so the cap binds only for stride <= 0.
MaxIter == MaxLimit + 2

\* ------------------------------------------------------- program constants
DefaultWindowSize == 320
DefaultHorizontalStride == 140
DefaultVerticalStride == 160

\* The page of the end-to-end scenario: <<image_width, image_height>>.
FixtureImage == <<1024, 768>>

VARIABLES
    pc,                \* position of the driver / of the called function
    outcome,           \* "none", "returned" or "raised" for the last call
    result,            \* the value returned by the last call
    window_size, stride, limit,        \* arguments of calculate_sliding_windows
    index, windows, left_window, right_window,   \* its locals
    image_width, image_height, horizontal_stride, vertical_stride,
    v_windows, h_windows, v_pos, h_pos,  \* position of the generator
    yielded,           \* the WindowCoordinates yielded so far by this call
    previous,          \* what the previous call with the same arguments yielded
    impl,              \* which module's function was called
    point, original_size, export_size,   \* arguments of scale_point
    top_left, bottom_right, image_size,  \* arguments of calculate_bounding_box
    label_index, labels_file,            \* arguments of export_yolov5_annotation
    files,             \* the label files: file name -> sequence of lines
    script,            \* the export script that runs: "letters" or "full"
    args_image_size,   \* args.image_size of the run
    group,             \* <<letter, directory>> of the collection being exported
    processed,         \* the number of annotations the loops have taken
    current,           \* the annotation taken last
    original_size_dict, labels_map,   \* the dictionaries of the export loops
    images,            \* the exported images: a set of <<directory, name>>
    yaml,              \* the dataset description file, <<>> until written
    pages,             \* the paths glob yields to main of the cutout export
    page,              \* how many of them the loop of main has taken
    metadata,          \* the metadata list of main
    metadata_file,     \* the rows of the CSV file, <<>> until written
    cutouts,           \* the names of the cutout images written
    image_paths        \* the arguments of two calls of get_export_file_names

vars == <<pc, outcome, result, window_size, stride, limit, index, windows,
          left_window, right_window, image_width, image_height,
          horizontal_stride, vertical_stride, v_windows, h_windows, v_pos,
          h_pos, yielded, previous, impl, point, original_size, export_size,
          top_left, bottom_right, image_size, label_index, labels_file, files,
          script, args_image_size, group, processed, current,
          original_size_dict, labels_map, images, yaml,
          pages, page, metadata, metadata_file, cutouts, image_paths>>

windowVars == <<window_size, stride, limit, index, windows, left_window,
                right_window>>
gridVars == <<image_width, image_height, horizontal_stride, vertical_stride,
              v_windows, h_windows, v_pos, h_pos, yielded, previous>>
exportVars == <<impl, point, original_size, export_size, top_left,
                bottom_right, image_size, label_index, labels_file, files,
                image_paths>>
pipelineVars == <<script, args_image_size, group, processed, current,
                  original_size_dict, labels_map, images, yaml>>
cutoutVars == <<pages, page, metadata, metadata_file, cutouts>>

\* ------------------------------------------------- sliding window partitioner

SlidingWindow(start, end) == [start |-> start, end |-> end]

WindowCoordinates(tlx, tly, brx, bry) ==
    [top_left_x |-> tlx, top_left_y |-> tly,
     bottom_right_x |-> brx, bottom_right_y |-> bry]

\* The loop tested against the whole of limit.
FullLimitLoopCondition(end, lim) == end <= lim

\* while (left_window.end <= limit / 2): `/` is true division, so the test
\* compares with the exact half.
StrictLoopCondition(end, lim) == 2 * end < lim
LoopCondition(end, lim) == 2 * end <= lim

\* The left window computed after index is incremented.
ShiftedLeftWindow(i, size, step) ==
    SlidingWindow((i + 1) * step, (i + 1) * step + size)

LeftWindow(i, size, step) == SlidingWindow(i * step, i * step + size)

ClampedRightWindow(i, size, step, lim) ==
    SlidingWindow(lim - i * step - size, lim - size)
RightWindow(i, size, step, lim) ==
    SlidingWindow(lim - i * step - size, lim - i * step)

\* sorted(windows, key=lambda window: window.start): a stable sort.
RECURSIVE InsertByStart(_, _)
InsertByStart(w, sorted) ==
    IF sorted = <<>> THEN <<w>>
    ELSE IF Head(sorted).start <= w.start
         THEN <<Head(sorted)>> \o InsertByStart(w, Tail(sorted))
         ELSE <<w>> \o sorted

RECURSIVE SortFrom(_, _)
SortFrom(ws, sorted) ==
    IF ws = <<>> THEN sorted
    ELSE SortFrom(Tail(ws), InsertByStart(Head(ws), sorted))

Unsorted(ws) == ws
SortByStart(ws) == SortFrom(ws, <<>>)

\* One iteration of the loop body on the locals <<index, windows, left, right>>.
LoopBody(i, ws, size, step, lim) ==
    [index |-> i + 1,
     windows |-> Append(Append(ws, LeftWindow(i, size, step)),
                        RightWindow(i, size, step, lim)),
     left_window |-> LeftWindow(i, size, step),
     right_window |-> RightWindow(i, size, step, lim)]

\* The whole function, for the callers that use its value (stride >= 1).
RECURSIVE RunLoop(_, _, _, _, _, _)
RunLoop(i, ws, left_end, size, step, lim) ==
    IF LoopCondition(left_end, lim)
    THEN LET s == LoopBody(i, ws, size, step, lim)
         IN  RunLoop(s.index, s.windows, s.left_window.end, size, step, lim)
    ELSE ws

calculate_sliding_windows(size, step, lim) ==
    SortByStart(RunLoop(0, <<>>, 0, size, step, lim))

\* calculate_sliding_windows(window_size, stride, limit): entry.
CallSlidingWindows ==
    /\ UNCHANGED <<pipelineVars, cutoutVars>>
    /\ pc = "idle"
    /\ \E size \in 1..MaxWindow, step \in (-1)..MaxStride, lim \in 0..MaxLimit :
          /\ window_size' = size
          /\ stride' = step
          /\ limit' = lim
    /\ index' = 0
    /\ windows' = <<>>
    /\ left_window' = SlidingWindow(0, 0)
    /\ right_window' = SlidingWindow(0, 0)
    /\ pc' = "sw_loop"
    /\ outcome' = "none"
    /\ result' = <<>>
    /\ UNCHANGED <<gridVars, exportVars>>

\* One pass through the while loop.
SlidingLoopIteration ==
    /\ UNCHANGED <<pipelineVars, cutoutVars>>
    /\ pc = "sw_loop"
    /\ LoopCondition(left_window.end, limit)
    /\ index < MaxIter
    /\ LET s == LoopBody(index, windows, window_size, stride, limit)
       IN  /\ index' = s.index
           /\ windows' = s.windows
           /\ left_window' = s.left_window
           /\ right_window' = s.right_window
    /\ UNCHANGED <<pc, outcome, result, window_size, stride, limit,
                   gridVars, exportVars>>

\* The loop test fails: return the sorted list.
SlidingReturn ==
    /\ UNCHANGED <<pipelineVars, cutoutVars>>
    /\ pc = "sw_loop"
    /\ ~LoopCondition(left_window.end, limit)
    /\ result' = SortByStart(windows)
    /\ outcome' = "returned"
    /\ pc' = "sw_done"
    /\ UNCHANGED <<windowVars, gridVars, exportVars>>

\* The caller drops the result; the driver is free for the next call.
Reset ==
    /\ UNCHANGED <<pipelineVars, cutoutVars>>
    /\ pc \in {"sw_done", "wc_done", "sp_done", "bb_done", "ex_done",
             "rt_done", "fn_done"}
    /\ pc' = "idle"
    /\ outcome' = "none"
    /\ result' = <<>>
    /\ window_size' = 0 /\ stride' = 0 /\ limit' = 0 /\ index' = 0
    /\ windows' = <<>>
    /\ left_window' = SlidingWindow(0, 0)
    /\ right_window' = SlidingWindow(0, 0)
    /\ image_width' = 0 /\ image_height' = 0
    /\ horizontal_stride' = 0 /\ vertical_stride' = 0
    /\ v_windows' = <<>> /\ h_windows' = <<>> /\ v_pos' = 0 /\ h_pos' = 0
    /\ yielded' = <<>> /\ previous' = <<>>
    /\ impl' = "none"
    /\ point' = <<0, 0>> /\ original_size' = <<>> /\ export_size' = <<>>
    /\ top_left' = <<0, 0>> /\ bottom_right' = <<0, 0>> /\ image_size' = <<>>
    /\ label_index' = 0 /\ labels_file' = "none"
    /\ image_paths' = <<>>
    /\ UNCHANGED files

\* ------------------------------------------------ calculate_window_coordinates

\* The arguments the generator is called with: small pages, and the page of
\* the end-to-end scenario with the default window size and strides.
Fixture ==
    [image_width |-> FixtureImage[1], image_height |-> FixtureImage[2],
     window_size |-> DefaultWindowSize,
     horizontal_stride |-> DefaultHorizontalStride,
     vertical_stride |-> DefaultVerticalStride]

GridArguments ==
    [image_width : 1..MaxImage, image_height : 1..MaxImage,
     window_size : 1..MaxWindow,
     horizontal_stride : 1..MaxImageStride,
     vertical_stride : 1..MaxImageStride] \cup {Fixture}

\* The generator object is created; no code of the body has run yet.
CallWindowCoordinates ==
    /\ UNCHANGED <<pipelineVars, cutoutVars>>
    /\ pc = "idle"
    /\ \E a \in GridArguments :
          /\ image_width' = a.image_width
          /\ image_height' = a.image_height
          /\ window_size' = a.window_size
          /\ horizontal_stride' = a.horizontal_stride
          /\ vertical_stride' = a.vertical_stride
    /\ v_windows' = <<>> /\ h_windows' = <<>>
    /\ v_pos' = 0 /\ h_pos' = 0
    /\ yielded' = <<>>
    /\ previous' = <<>>
    /\ pc' = "wc_run"
    /\ outcome' = "none"
    /\ result' = <<>>
    /\ UNCHANGED <<stride, limit, index, windows, left_window, right_window,
                   exportVars>>

\* The outer list is computed once, when the generator is first resumed; the
\* inner list is computed again at the start of every outer iteration.
OuterWindows ==
    IF v_pos = 0
    THEN calculate_sliding_windows(window_size, vertical_stride, image_height)
    ELSE v_windows

InnerExhausted == v_pos = 0 \/ h_pos >= Len(h_windows)

NextOuter == IF InnerExhausted THEN v_pos + 1 ELSE v_pos

NextInner == IF InnerExhausted THEN 1 ELSE h_pos + 1

InnerWindows ==
    IF InnerExhausted
    THEN calculate_sliding_windows(window_size, horizontal_stride, image_width)
    ELSE h_windows

SwappedCoordinates(h_window, v_window) ==
    WindowCoordinates(v_window.start, h_window.start,
                      v_window.end, h_window.end)
YieldedCoordinates(h_window, v_window) ==
    WindowCoordinates(h_window.start, v_window.start,
                      h_window.end, v_window.end)

\* next(generator) runs to the next yield.
WindowCoordinatesYield ==
    /\ UNCHANGED <<pipelineVars, cutoutVars>>
    /\ pc = "wc_run"
    /\ NextOuter <= Len(OuterWindows)
    /\ NextInner <= Len(InnerWindows)
    /\ v_windows' = OuterWindows
    /\ h_windows' = InnerWindows
    /\ v_pos' = NextOuter
    /\ h_pos' = NextInner
    /\ yielded' = Append(yielded,
                         YieldedCoordinates(InnerWindows[NextInner],
                                            OuterWindows[NextOuter]))
    /\ UNCHANGED <<pc, outcome, result, window_size, stride, limit, index,
                   windows, left_window, right_window, image_width,
                   image_height, horizontal_stride, vertical_stride, previous,
                   exportVars>>

\* next(generator) finds the outer list exhausted: StopIteration.
WindowCoordinatesStop ==
    /\ UNCHANGED <<pipelineVars, cutoutVars>>
    /\ pc = "wc_run"
    /\ NextOuter > Len(OuterWindows)
    /\ v_windows' = OuterWindows
    /\ v_pos' = NextOuter
    /\ result' = yielded
    /\ outcome' = "returned"
    /\ pc' = "wc_done"
    /\ UNCHANGED <<window_size, stride, limit, index, windows, left_window,
                   right_window, image_width, image_height, horizontal_stride,
                   vertical_stride, h_windows, h_pos, yielded, previous,
                   exportVars>>

\* The function is called a second time with the same arguments: a new
\* generator, nothing kept from the first.
WindowCoordinatesAgain ==
    /\ UNCHANGED <<pipelineVars, cutoutVars>>
    /\ pc = "wc_done"
    /\ previous = <<>>
    /\ previous' = yielded
    /\ yielded' = <<>>
    /\ v_windows' = <<>> /\ h_windows' = <<>>
    /\ v_pos' = 0 /\ h_pos' = 0
    /\ pc' = "wc_run"
    /\ outcome' = "none"
    /\ result' = <<>>
    /\ UNCHANGED <<window_size, stride, limit, index, windows, left_window,
                   right_window, image_width, image_height, horizontal_stride,
                   vertical_stride, exportVars>>

\* ------------------------------------------------- coordinate transform engine

\* A Python float, kept exact: <<numerator, denominator>>, denominator > 0.
Rat(n, d) == <<n, d>>

RatEq(a, b) == a[1] * b[2] = b[1] * a[2]

RatLeq(a, b) == a[1] * b[2] <= b[1] * a[2]

\* round(n / d) for d > 0: to the nearest integer, a tie to the even one.
Round(n, d) ==
    LET q == n \div d
        r == n % d
    IN  IF 2 * r < d THEN q
        ELSE IF 2 * r > d THEN q + 1
        ELSE IF q % 2 = 0 THEN q ELSE q + 1

\* The bits of the fraction of a Python float (IEEE 754 binary64).
MantissaBits == 52

Abs(n) == IF n >= 0 THEN n ELSE -n

\* floor(log2(n / d)) for n, d > 0: the binary exponent of the float n / d.
RECURSIVE FloorLog2(_, _)
FloorLog2(n, d) ==
    IF n >= 2 * d THEN FloorLog2(n, 2 * d) + 1
    ELSE IF n < d THEN FloorLog2(2 * n, d) - 1
    ELSE 0

RECURSIVE Pow2(_)
Pow2(k) == IF k = 0 THEN 1 ELSE 2 * Pow2(k - 1)

\* 2^k mod m
RECURSIVE Pow2Mod(_, _)
Pow2Mod(k, m) == IF k = 0 THEN 1 % m ELSE (2 * Pow2Mod(k - 1, m)) % m

\* round(x * (export_dim / original_dim)) as Python computes it: the
\* quotient is rounded to a float, then the product is, then round() takes
\* the nearest integer, a tie to the even one.  The exact product n / d is
\* either half an odd integer or at least 1 / (2 * d) away from one, so the
\* two float roundings can move the result only in the first case; there the
\* quotient's rounding error is err / d of its last place (err from the
\* remainder of the binary long division), and the product is a float other
\* than the exact half when x times that error is more than half a last
\* place of the product.
RoundProduct(x, export_dim, original_dim) ==
    LET n == x * export_dim
        d == original_dim
        half == (2 * n) % d = 0 /\ n % d # 0
        e == FloorLog2(export_dim, d)
        r == (export_dim * Pow2Mod(MantissaBits - e, d)) % d
        err == IF 2 * r < d THEN -r ELSE d - r
        eh == FloorLog2(Abs(2 * n), 2 * d)
        k == IF e < eh THEN (IF e < 0 THEN -e ELSE 0)
             ELSE (IF eh < 0 THEN -eh ELSE 0)
    IN  IF ~half \/ r = 0 THEN Round(n, d)
        ELSE IF 2 * Abs(x * err) * Pow2(e + k) > d * Pow2(eh + k)
             THEN (IF x * err > 0 THEN (n \div d) + 1 ELSE n \div d)
             ELSE Round(n, d)

Returned(value) == [raised |-> FALSE, value |-> value]

Raised(error) == [raised |-> TRUE, value |-> error]

\* (width, height) pairs, and the shapes (height, width, channels) of the
\* arrays cv.imread returns.
Sizes == {<<w, h>> : w \in 1..MaxSize, h \in 1..MaxSize}

Shapes == {<<h, w, 3>> : h \in 1..MaxSize, w \in 1..MaxSize}

\* Any integer point, also left of or above the image.
Points == {<<x, y>> : x \in (-1)..MaxCoord, y \in (-1)..MaxCoord}

\* The corners of an annotation: pixel coordinates, not negative.
Corners == {<<x, y>> : x \in 0..MaxCoord, y \in 0..MaxCoord}

\* height, width, _ = image.shape; return (width, height)
get_cv2_image_size(shape) == <<shape[2], shape[1]>>

\* exportutils.scale_point: original_width, original_height = original_size.
scale_point(p, original, export) ==
    IF Len(original) # 2 \/ Len(export) # 2
    THEN Raised("ValueError")
    ELSE LET original_width == original[1]
             original_height == original[2]
             export_width == export[1]
             export_height == export[2]
         IN  Returned(<<RoundProduct(p[1], export_width, original_width),
                        RoundProduct(p[2], export_height, original_height)>>)

\* utils.exportutils.scale_point:
\* original_height, original_width, _ = original_size.
utils_scale_point(p, original, export) ==
    IF Len(original) # 3 \/ Len(export) # 2
    THEN Raised("ValueError")
    ELSE LET original_height == original[1]
             original_width == original[2]
             export_width == export[1]
             export_height == export[2]
         IN  Returned(<<RoundProduct(p[1], export_width, original_width),
                        RoundProduct(p[2], export_height, original_height)>>)

\* The variant of export-yolov5-annotations.py: the centre is the rounded half
\* of the extent, without the offset of the top-left corner.
RoundedCenterBoundingBox(tl, br, size) ==
    <<<<Rat(Round(br[1] - tl[1], 2), size[1]),
        Rat(Round(br[2] - tl[2], 2), size[2])>>,
      <<Rat(br[1] - tl[1], size[1]), Rat(br[2] - tl[2], size[2])>>>>

\* exportutils.calculate_bounding_box: <<center, dimensions>>.
calculate_bounding_box(tl, br, size) ==
    LET x1 == tl[1]
        y1 == tl[2]
        x2 == br[1]
        y2 == br[2]
        width == size[1]
        height == size[2]
        \* x1 + (x2 - x1) / 2, then divided by width
        x_center == Rat(2 * x1 + (x2 - x1), 2 * width)
        y_center == Rat(2 * y1 + (y2 - y1), 2 * height)
        box_width == Rat(x2 - x1, width)
        box_height == Rat(y2 - y1, height)
    IN  <<<<x_center, y_center>>, <<box_width, box_height>>>>

\* utils.exportutils.calculate_bounding_box: the same body.
utils_calculate_bounding_box(tl, br, size) ==
    LET x1 == tl[1]
        y1 == tl[2]
        x2 == br[1]
        y2 == br[2]
        width == size[1]
        height == size[2]
        x_center == Rat(2 * x1 + (x2 - x1), 2 * width)
        y_center == Rat(2 * y1 + (y2 - y1), 2 * height)
        box_width == Rat(x2 - x1, width)
        box_height == Rat(y2 - y1, height)
    IN  <<<<x_center, y_center>>, <<box_width, box_height>>>>

\* The line "{label} {x} {y} {w} {h}\n".
LabelLine(label, center, dimensions) ==
    [label |-> label, x |-> center[1], y |-> center[2],
     w |-> dimensions[1], h |-> dimensions[2]]

\* open(labels_file, 'a'): a file that does not exist yet is created.
Lines(fs, name) == IF name \in DOMAIN fs THEN fs[name] ELSE <<>>

AppendLine(fs, name, line) ==
    [f \in DOMAIN fs \cup {name} |->
        IF f = name THEN Append(Lines(fs, name), line) ELSE fs[f]]

LabelFiles == {"a-1.txt", "b-1.txt"}

\* Points of two larger pages, one narrow and one low.
LargerPageArguments ==
    {[point |-> <<15, 7>>, original |-> <<6, 14>>, export |-> <<25, 29>>],
     [point |-> <<57, 3>>, original |-> <<6, 2>>, export |-> <<13, 1>>]}

\* The pages are given as a (width, height) pair, as the docstring asks, or
\* as an array shape.
ScalePointArguments ==
    [point : Points, original : Sizes \cup Shapes, export : Sizes]
        \cup LargerPageArguments

\* A direct call of scale_point of either module.
CallScalePoint ==
    /\ UNCHANGED <<pipelineVars, cutoutVars>>
    /\ pc = "idle"
    /\ \E m \in {"exportutils", "utils.exportutils"},
          a \in ScalePointArguments :
          LET r == IF m = "exportutils"
                   THEN scale_point(a.point, a.original, a.export)
                   ELSE utils_scale_point(a.point, a.original, a.export)
          IN  /\ impl' = m
              /\ point' = a.point
              /\ original_size' = a.original
              /\ export_size' = a.export
              /\ outcome' = IF r.raised THEN "raised" ELSE "returned"
              /\ result' = IF r.raised THEN <<>> ELSE r.value
    /\ pc' = "sp_done"
    /\ UNCHANGED <<windowVars, gridVars, top_left, bottom_right, image_size,
                   label_index, labels_file, image_paths, files>>

\* A direct call of calculate_bounding_box of either module.
CallBoundingBox ==
    /\ UNCHANGED <<pipelineVars, cutoutVars>>
    /\ pc = "idle"
    /\ \E m \in {"exportutils", "utils.exportutils"}, tl \in Points,
          br \in Points, size \in Sizes :
          /\ impl' = m
          /\ top_left' = tl
          /\ bottom_right' = br
          /\ image_size' = size
          /\ result' = IF m = "exportutils"
                       THEN calculate_bounding_box(tl, br, size)
                       ELSE utils_calculate_bounding_box(tl, br, size)
    /\ outcome' = "returned"
    /\ pc' = "bb_done"
    /\ UNCHANGED <<windowVars, gridVars, point, original_size, export_size,
                   label_index, labels_file, image_paths, files>>

\* utils.exportutils.export_yolov5_annotation, called as export_annotations
\* calls it: the original size is what get_cv2_image_size returned for the
\* page.  An exception of scale_point leaves the function before the file is
\* opened.
CallExportAnnotation ==
    /\ UNCHANGED <<pipelineVars, cutoutVars>>
    /\ pc = "idle"
    /\ \E label \in 0..MaxLabel, tl \in Corners, br \in Corners,
          shape \in Shapes, export \in Sizes, name \in LabelFiles :
          LET original == get_cv2_image_size(shape)
              scaled_tl == utils_scale_point(tl, original, export)
              scaled_br == utils_scale_point(br, original, export)
              box == utils_calculate_bounding_box(scaled_tl.value,
                                                  scaled_br.value, export)
          IN  /\ impl' = "utils.exportutils"
              /\ label_index' = label
              /\ top_left' = tl
              /\ bottom_right' = br
              /\ original_size' = original
              /\ export_size' = export
              /\ labels_file' = name
              /\ IF scaled_tl.raised \/ scaled_br.raised
                 THEN /\ outcome' = "raised"
                      /\ files' = files
                 ELSE /\ outcome' = "returned"
                      /\ files' = AppendLine(files, name,
                                             LabelLine(label, box[1], box[2]))
    /\ result' = <<>>
    /\ pc' = "ex_done"
    /\ UNCHANGED <<windowVars, gridVars, point, image_size, image_paths>>

\* --------------------------------------------------- utils/yolov5utils.py

RatSub(a, b) == <<a[1] * b[2] - b[1] * a[2], a[2] * b[2]>>

RatAdd(a, b) == <<a[1] * b[2] + b[1] * a[2], a[2] * b[2]>>

RatHalf(a) == <<a[1], 2 * a[2]>>

RatTimes(a, k) == <<a[1] * k, a[2]>>

RoundRat(a) == Round(a[1], a[2])

\* The corner taken a whole box width left of the centre instead of half.
UnhalvedTranslate(center, box_size, size) ==
    LET top_left_x == RatTimes(RatSub(center[1], box_size[1]), size[1])
        top_left_y == RatTimes(RatSub(center[2], box_size[2]), size[2])
        bottom_down_x == RatAdd(top_left_x, RatTimes(box_size[1], size[1]))
        bottom_down_y == RatAdd(top_left_y, RatTimes(box_size[2], size[2]))
    IN  <<<<RoundRat(top_left_x), RoundRat(top_left_y)>>,
          <<RoundRat(bottom_down_x), RoundRat(bottom_down_y)>>,
          <<RoundRat(RatTimes(center[1], size[1])),
            RoundRat(RatTimes(center[2], size[2]))>>>>

\* translate_coordinates: <<top_left, bottom_right, center>> in pixels.
translate_coordinates(center, box_size, size) ==
    LET center_x == center[1]
        center_y == center[2]
        box_width == box_size[1]
        box_height == box_size[2]
        img_width == size[1]
        img_height == size[2]
        top_left_x == RatTimes(RatSub(center_x, RatHalf(box_width)), img_width)
        top_left_y == RatTimes(RatSub(center_y, RatHalf(box_height)),
                               img_height)
        bottom_down_x == RatAdd(top_left_x, RatTimes(box_width, img_width))
        bottom_down_y == RatAdd(top_left_y, RatTimes(box_height, img_height))
    IN  <<<<RoundRat(top_left_x), RoundRat(top_left_y)>>,
          <<RoundRat(bottom_down_x), RoundRat(bottom_down_y)>>,
          <<RoundRat(RatTimes(center_x, img_width)),
            RoundRat(RatTimes(center_y, img_height))>>>>

\* A box is computed with utils.exportutils.calculate_bounding_box and taken
\* back to pixels with translate_coordinates, on the same image size.
CallRoundTrip ==
    /\ UNCHANGED <<pipelineVars, cutoutVars>>
    /\ pc = "idle"
    /\ \E tl \in Corners, br \in Corners, size \in Sizes :
          LET box == utils_calculate_bounding_box(tl, br, size)
          IN  /\ top_left' = tl
              /\ bottom_right' = br
              /\ image_size' = size
              /\ result' = translate_coordinates(box[1], box[2], size)
    /\ impl' = "utils.exportutils"
    /\ outcome' = "returned"
    /\ pc' = "rt_done"
    /\ UNCHANGED <<windowVars, gridVars, point, original_size, export_size,
                   label_index, labels_file, image_paths, files>>

\* ------------------------------------------------------- label export loops

\* The most annotations one run takes.
MaxAnnotations == 4

\* A file path: the directories, the stem and the suffix of the file name,
\* each name a sequence of characters.
FilePath(dirs, stem, suffix) == [dirs |-> dirs, stem |-> stem, suffix |-> suffix]

\* No annotation has been taken yet.
NoAnnotation ==
    [file_name |-> FilePath(<<>>, <<>>, ""), letter |-> "none",
     coords |-> <<0, 0, 0, 0>>]

\* The pages the annotations refer to, and what is on disk at each path: two
\* images, a path with no file, and a file that is no image.
SourcePages ==
    {FilePath(<<<<"s">>, <<"a">>>>, <<n>>, ".png") : n \in {"1", "2", "3", "4"}}

Disk(path) ==
    CASE path.stem = <<"1">> -> [status |-> "image", size |-> <<4, 2>>]
      [] path.stem = <<"2">> -> [status |-> "image", size |-> <<2, 4>>]
      [] path.stem = <<"3">> -> [status |-> "missing", size |-> <<>>]
      [] OTHER -> [status |-> "corrupt", size |-> <<>>]

\* What Image.open raises on the path, "none" for an image.
OpenError(path) ==
    CASE Disk(path).status = "image" -> "none"
      [] Disk(path).status = "missing" -> "FileNotFoundError"
      [] Disk(path).status = "directory" -> "IsADirectoryError"
      [] OTHER -> "UnidentifiedImageError"

\* The rectangles of the annotations (x1, y1, x2, y2): a box, a box of no
\* area, and a box off the origin.
Rectangles == {<<0, 0, 1, 1>>, <<1, 1, 1, 1>>, <<1, 0, 2, 2>>}

\* args.image_size of export-yolov5-annotations.py: two integers.
ExportSizes == {<<2, 2>>, <<4, 4>>}

\* The labels in the order groupby gives the groups: sorted.
Letters == <<"a", "b">>

Directories == <<"train", "val">>

\* '{parent}-{image}.png' and '{parent}-{image}.txt' with
\* parent = path.parts[-2] and image = path.stem.
get_export_file_names(path) ==
    LET parent == path.dirs[Len(path.dirs)]
    IN  [image_name |-> parent \o <<"-">> \o path.stem \o <<".png">>,
         labels_name |-> parent \o <<"-">> \o path.stem \o <<".txt">>]

\* export-yolov5-annotations.py scale_coordinates.
scale_coordinates(tl, br, original, export) ==
    LET original_width == original[1]
        original_height == original[2]
        width == export[1]
        height == export[2]
    IN  <<<<RoundProduct(tl[1], width, original_width),
            RoundProduct(tl[2], height, original_height)>>,
          <<RoundProduct(br[1], width, original_width),
            RoundProduct(br[2], height, original_height)>>>>

\* export-yolov5-annotations.py calculate_bounding_box:
\* x_center = round((x2 - x1) / 2) / width.
letters_calculate_bounding_box(tl, br, size) ==
    LET x1 == tl[1]
        y1 == tl[2]
        x2 == br[1]
        y2 == br[2]
        width == size[1]
        height == size[2]
        x_center == Rat(Round(x2 - x1, 2), width)
        y_center == Rat(Round(y2 - y1, 2), height)
        box_width == Rat(x2 - x1, width)
        box_height == Rat(y2 - y1, height)
    IN  <<<<x_center, y_center>>, <<box_width, box_height>>>>

\* with open(labels_file, 'a') as f: f.write(...)
WriteLine(fs, name, line) == AppendLine(fs, name, line)

\* export_bounding_boxes: the label files after the call.
export_bounding_boxes(fs, coords, original, export, name, label) ==
    LET scaled == scale_coordinates(<<coords[1], coords[2]>>,
                                    <<coords[3], coords[4]>>, original, export)
        box == letters_calculate_bounding_box(scaled[1], scaled[2], export)
    IN  WriteLine(fs, name, LabelLine(label, box[1], box[2]))

\* The new label counted from 1.
OneBasedLabel(map, letter) ==
    IF letter \in DOMAIN map THEN map
    ELSE [l \in DOMAIN map \cup {letter} |->
            IF l = letter THEN Cardinality(DOMAIN map) + 1 ELSE map[l]]

\* if letter not in labels_map: labels_map[letter] = len(labels_map)
AssignLabel(map, letter) ==
    IF letter \in DOMAIN map THEN map
    ELSE [l \in DOMAIN map \cup {letter} |->
            IF l = letter THEN Cardinality(DOMAIN map) ELSE map[l]]

Remember(dict, name, size) ==
    [n \in DOMAIN dict \cup {name} |-> IF n = name THEN size ELSE dict[n]]

\* Paths get_export_file_names is called with: the pages, and paths that
\* differ from a page in the grandparent directory, in the suffix, or in the
\* parent directory only.
ExportPaths ==
    SourcePages \cup
    {FilePath(<<<<"t">>, <<"a">>>>, <<"1">>, ".png"),
     FilePath(<<<<"s">>, <<"a">>>>, <<"1">>, ".jpg"),
     FilePath(<<<<"s">>, <<"b">>>>, <<"1">>, ".png")}

\* Two calls of get_export_file_names, of either script.
CallGetExportFileNames ==
    /\ UNCHANGED <<pipelineVars, cutoutVars>>
    /\ pc = "idle"
    /\ \E m \in {"export-yolov5-annotations",
                 "export-yolov5-annotations-on-full-images"} : impl' = m
    /\ \E first \in ExportPaths, second \in ExportPaths :
          /\ image_paths' = <<first, second>>
          /\ result' = <<get_export_file_names(first),
                         get_export_file_names(second)>>
    /\ outcome' = "returned"
    /\ pc' = "fn_done"
    /\ UNCHANGED <<windowVars, gridVars, point, original_size, export_size,
                   top_left, bottom_right, image_size, label_index,
                   labels_file, files>>

\* main of export-yolov5-annotations.py has loaded the annotations.
StartLetters ==
    /\ pc = "idle"
    /\ script' = "letters"
    /\ \E size \in ExportSizes : args_image_size' = size
    /\ group' = <<0, 0>>
    /\ processed' = 0
    /\ current' = NoAnnotation
    /\ original_size_dict' = [n \in {} |-> <<>>]
    /\ labels_map' = [l \in {} |-> 0]
    /\ images' = {}
    /\ yaml' = <<>>
    /\ files' = [f \in {} |-> <<>>]
    /\ pc' = "pl_run"
    /\ outcome' = "none"
    /\ UNCHANGED <<result, windowVars, gridVars, impl, point, original_size,
                   export_size, top_left, bottom_right, image_size,
                   label_index, labels_file, image_paths, cutoutVars>>

\* The collections follow each other as main passes them: for each letter in
\* sorted order its training collection, then its validation collection.
Follows(g, h) ==
    \/ g = h /\ g # <<0, 0>>
    \/ g[2] = 1 /\ h = <<g[1], 2>>
    \/ g[2] \in {0, 2} /\ h[1] > g[1] /\ h[2] = 1

\* One pass through the loop of export_collection, for the next annotation of
\* the collection main is at or of a collection that follows.
ExportCollectionStep ==
    /\ pc = "pl_run"
    /\ script = "letters"
    /\ processed < MaxAnnotations
    /\ \E l \in 1..Len(Letters), d \in 1..Len(Directories),
          file_name \in SourcePages, coords \in Rectangles :
          LET letter == Letters[l]
              destination_directory == Directories[d]
              names == get_export_file_names(file_name)
              known == names.image_name \in DOMAIN original_size_dict
              error == IF known THEN "none" ELSE OpenError(file_name)
              sizes == IF known THEN original_size_dict
                       ELSE Remember(original_size_dict, names.image_name,
                                     Disk(file_name).size)
              labels == AssignLabel(labels_map, letter)
          IN  /\ Follows(group, <<l, d>>)
              /\ group' = <<l, d>>
              /\ current' = [file_name |-> file_name, letter |-> letter,
                             coords |-> coords]
              /\ processed' = processed + 1
              /\ IF error = "none"
                 THEN /\ images' = IF known THEN images
                                   ELSE images \cup
                                        {<<destination_directory,
                                           names.image_name>>}
                      /\ original_size_dict' = sizes
                      /\ labels_map' = labels
                      /\ files' = export_bounding_boxes(
                                      files, coords, sizes[names.image_name],
                                      args_image_size,
                                      <<destination_directory,
                                        names.labels_name>>,
                                      labels[letter])
                      /\ outcome' = "exported"
                      /\ pc' = pc
                 ELSE IF error \in {"FileNotFoundError", "IsADirectoryError"}
                 THEN \* logged; continue
                      /\ outcome' = "skipped"
                      /\ UNCHANGED <<pc, images, original_size_dict,
                                     labels_map, files>>
                 ELSE \* the except clause does not name the exception
                      /\ outcome' = "raised"
                      /\ pc' = "pl_aborted"
                      /\ UNCHANGED <<images, original_size_dict, labels_map,
                                     files>>
    /\ UNCHANGED <<result, windowVars, gridVars, impl, point, original_size,
                   export_size, top_left, bottom_right, image_size,
                   label_index, labels_file, image_paths, script, args_image_size, yaml,
                   cutoutVars>>

\* labels = sorted(labels_map, key=labels_map.get)
RECURSIVE InsertByKey(_, _, _)
InsertByKey(l, sorted, key) ==
    IF sorted = <<>> THEN <<l>>
    ELSE IF key[Head(sorted)] <= key[l]
         THEN <<Head(sorted)>> \o InsertByKey(l, Tail(sorted), key)
         ELSE <<l>> \o sorted

RECURSIVE SortedFrom(_, _, _)
SortedFrom(todo, sorted, key) ==
    IF todo = {} THEN sorted
    ELSE LET l == CHOOSE x \in todo : TRUE
         IN  SortedFrom(todo \ {l}, InsertByKey(l, sorted, key), key)

RECURSIVE Reversed(_)
Reversed(seq) ==
    IF seq = <<>> THEN <<>> ELSE Append(Reversed(Tail(seq)), Head(seq))

\* The labels by falling index.
SortedDescending(map) == Reversed(SortedFrom(DOMAIN map, <<>>, map))

\* sorted(labels_map, key=labels_map.get)
SortedByIndex(map) == SortedFrom(DOMAIN map, <<>>, map)

\* save_dataset_description: nc = len(labels), names = the printed list.
save_dataset_description(train, val, labels) ==
    [train |-> train, val |-> val, nc |-> Len(labels), names |-> labels]

\* main after the last group: the dataset description file is written.
FinishLetters ==
    /\ pc = "pl_run"
    /\ script = "letters"
    /\ group[2] \in {0, 2}
    /\ yaml' = save_dataset_description("train", "val",
                                        SortedByIndex(labels_map))
    /\ pc' = "pl_done"
    /\ outcome' = "returned"
    /\ UNCHANGED <<result, windowVars, gridVars, exportVars, script,
                   args_image_size, group, processed, current,
                   original_size_dict, labels_map, images, cutoutVars>>

\* ------------------------- export-yolov5-annotations-on-full-images.py

\* args.image_size of the script: two integers, or None (here <<>>).
FullExportSizes == ExportSizes \cup {<<>>}

\* utils.exportutils.export_image(src_path, dest_path, width, height), called
\* by export_annotations as export_image(file_name, path, image_size,
\* binary_read): Image.open raises on a path that holds no image; on an image
\* resize gets (image_size, binary_read) for a size, and the library either
\* raises or goes on.  The function has no return statement: when it
\* completes, the caller gets None.
ExportImageResults(path) ==
    IF OpenError(path) # "none" THEN {"raised"} ELSE {"raised", "None"}

\* export_char_annotations has loaded the annotations and set every letter
\* to 'char'.
StartFull ==
    /\ pc = "idle"
    /\ script' = "full"
    /\ \E size \in FullExportSizes : args_image_size' = size
    /\ group' = <<0, 0>>
    /\ processed' = 0
    /\ current' = NoAnnotation
    /\ original_size_dict' = [n \in {} |-> <<>>]
    /\ labels_map' = [l \in {} |-> 0]
    /\ images' = {}
    /\ yaml' = <<>>
    /\ files' = [f \in {} |-> <<>>]
    /\ pc' = "pl_run"
    /\ outcome' = "none"
    /\ UNCHANGED <<result, windowVars, gridVars, impl, point, original_size,
                   export_size, top_left, bottom_right, image_size,
                   label_index, labels_file, image_paths, cutoutVars>>

\* One pass through the loop of export_annotations.
ExportAnnotationsStep ==
    /\ pc = "pl_run"
    /\ script = "full"
    /\ processed < MaxAnnotations
    /\ \E file_name \in SourcePages, coords \in Rectangles :
          LET letter == "char"
              names == get_export_file_names(file_name)
              known == names.image_name \in DOMAIN original_size_dict
              labels == AssignLabel(labels_map, letter)
              original == original_size_dict[names.image_name]
              export == IF args_image_size # <<>> THEN args_image_size
                        ELSE original
              scaled_tl == utils_scale_point(<<coords[1], coords[2]>>,
                                             original, export)
              scaled_br == utils_scale_point(<<coords[3], coords[4]>>,
                                             original, export)
              box == utils_calculate_bounding_box(scaled_tl.value,
                                                  scaled_br.value, export)
          IN  /\ current' = [file_name |-> file_name, letter |-> letter,
                             coords |-> coords]
              /\ processed' = processed + 1
              /\ IF ~known
                 THEN \E image_exported \in ExportImageResults(file_name) :
                         IF image_exported = "raised"
                         THEN /\ outcome' = "raised"
                              /\ pc' = "pl_aborted"
                              /\ UNCHANGED <<labels_map, files, images>>
                         ELSE \* the image is saved; None is false: logged;
                              \* continue
                              /\ images' = images \cup
                                     {<<"staging", names.image_name>>}
                              /\ outcome' = "skipped"
                              /\ UNCHANGED <<pc, labels_map, files>>
                 ELSE /\ labels_map' = labels
                      /\ images' = images
                      /\ IF scaled_tl.raised \/ scaled_br.raised
                         THEN /\ outcome' = "raised"
                              /\ pc' = "pl_aborted"
                              /\ files' = files
                         ELSE /\ outcome' = "exported"
                              /\ pc' = pc
                              /\ files' = AppendLine(
                                     files, <<"staging", names.labels_name>>,
                                     LabelLine(labels[letter], box[1], box[2]))
    /\ UNCHANGED <<result, windowVars, gridVars, impl, point, original_size,
                   export_size, top_left, bottom_right, image_size,
                   label_index, labels_file, image_paths, script, args_image_size, group,
                   original_size_dict, yaml, cutoutVars>>

\* export_char_annotations after the loop: the staging directory is split
\* and moved (train_test_split raises on an empty directory; the code of the
\* library decides), then the dataset description file is written.
FinishFull ==
    /\ pc = "pl_run"
    /\ script = "full"
    /\ \/ /\ DOMAIN files = {}
          /\ pc' = "pl_failed"
          /\ outcome' = "raised"
          /\ yaml' = yaml
       \/ /\ yaml' = save_dataset_description("train", "val",
                                              SortedByIndex(labels_map))
          /\ pc' = "pl_done"
          /\ outcome' = "returned"
    /\ UNCHANGED <<result, windowVars, gridVars, exportVars, script,
                   args_image_size, group, processed, current,
                   original_size_dict, labels_map, images, cutoutVars>>

\* ------------------------------------------------ export-image-cutouts.py

\* The *.png paths the input directory can hold, and what cv.imread gives for
\* each: an array of shape <<rows, columns>> after the grayscale pipeline, or
\* None for a file that cannot be read as an image.
InputPages ==
    {FilePath(<<<<"in">>, <<"p">>>>, <<n>>, ".png") : n \in {"1", "2", "3"}}

imread(path) ==
    CASE path.stem = <<"1">> -> [shape |-> <<3, 4>>]
      [] path.stem = <<"2">> -> [shape |-> <<2, 2>>]
      [] OTHER -> [shape |-> <<>>]

\* cv.cvtColor raises on the None cv.imread returns for an unreadable file.
read_image_grayscale(path) ==
    IF imread(path).shape = <<>> THEN Raised("cv2.error")
    ELSE Returned(imread(path).shape)

\* The orders glob can yield the paths of a directory in.
RECURSIVE Listings(_)
Listings(paths) ==
    {<<>>} \cup
    UNION {{<<p>> \o rest : rest \in Listings(paths \ {p})} : p \in paths}

DecimalDigit(n) == <<"0", "1", "2", "3", "4", "5", "6", "7", "8", "9">>[n + 1]

RECURSIVE Digits(_)
Digits(n) ==
    IF n < 10 THEN <<DecimalDigit(n)>>
    ELSE Append(Digits(n \div 10), DecimalDigit(n % 10))

\* f'{idx}', without padding.
UnpaddedIndex(idx) == Digits(idx)

\* f'{idx:02d}'
Format02d(idx) == IF idx < 10 THEN <<"0">> \o Digits(idx) ELSE Digits(idx)

\* f'{image_path.parts[-2]}-{image_path.stem}-w{idx:02d}.png'
WindowFileName(path, idx) ==
    path.dirs[Len(path.dirs)] \o <<"-">> \o path.stem \o <<"-w">>
        \o Format02d(idx) \o <<".png">>

WindowMetadata(width, height, name, size, w) ==
    [image_width |-> width, image_height |-> height, window_name |-> name,
     window_size |-> size, top_left_x |-> w.top_left_x,
     top_left_y |-> w.top_left_y, bottom_right_x |-> w.bottom_right_x,
     bottom_right_y |-> w.bottom_right_y]

\* Everything calculate_window_coordinates yields when it is run to its end:
\* for every vertical window, every horizontal window.
calculate_window_coordinates(width, height, size, h_stride, v_stride) ==
    LET vertical == calculate_sliding_windows(size, v_stride, height)
        horizontal == calculate_sliding_windows(size, h_stride, width)
        n == Len(horizontal)
    IN  [k \in 1..(Len(vertical) * n) |->
            YieldedCoordinates(horizontal[((k - 1) % n) + 1],
                               vertical[((k - 1) \div n) + 1])]

\* The metadata export_image_cutouts yields for a readable image; idx counts
\* from 0.
ImageCutouts(path, shape, size, h_stride, v_stride) ==
    LET img_size == get_cv2_image_size(shape)
        coordinates == calculate_window_coordinates(
                           img_size[1], img_size[2], size, h_stride, v_stride)
    IN  [k \in 1..Len(coordinates) |->
            WindowMetadata(img_size[1], img_size[2],
                           WindowFileName(path, k - 1), size, coordinates[k])]

\* main up to the loop over the input directory.
StartCutouts ==
    /\ pc = "idle"
    /\ \E listing \in Listings(InputPages) : pages' = listing
    /\ \E size \in 1..MaxWindow, h_stride \in 1..MaxImageStride,
          v_stride \in 1..MaxImageStride :
          /\ window_size' = size
          /\ horizontal_stride' = h_stride
          /\ vertical_stride' = v_stride
    /\ page' = 0
    /\ metadata' = <<>>
    /\ metadata_file' = <<>>
    /\ cutouts' = {}
    /\ outcome' = "none"
    /\ pc' = "co_run"
    /\ UNCHANGED <<result, stride, limit, index, windows, left_window,
                   right_window, image_width, image_height, v_windows,
                   h_windows, v_pos, h_pos, yielded, previous, exportVars,
                   pipelineVars>>

\* One pass through the outer loop of main: export_image_cutouts is run to
\* its end on the next path and its items are appended to metadata.  An
\* exception of read_image_grayscale is caught nowhere and ends main.
ExportImageCutouts ==
    /\ pc = "co_run"
    /\ page < Len(pages)
    /\ page' = page + 1
    /\ LET image == pages[page + 1]
           source_img == read_image_grayscale(image)
       IN  IF source_img.raised
           THEN /\ outcome' = "raised"
                /\ pc' = "co_crashed"
                /\ UNCHANGED <<image_width, image_height, metadata, cutouts>>
           ELSE LET items == ImageCutouts(image, source_img.value,
                                          window_size, horizontal_stride,
                                          vertical_stride)
                IN  /\ image_width' = get_cv2_image_size(source_img.value)[1]
                    /\ image_height' = get_cv2_image_size(source_img.value)[2]
                    /\ metadata' = metadata \o items
                    /\ cutouts' = cutouts \cup
                           {items[k].window_name : k \in 1..Len(items)}
                    /\ outcome' = "returned"
                    /\ pc' = "co_run"
    /\ UNCHANGED <<result, windowVars, horizontal_stride, vertical_stride,
                   v_windows, h_windows, v_pos, h_pos, yielded, previous,
                   exportVars, pipelineVars, pages, metadata_file>>

\* save_metadata, after the last path.
SaveMetadata ==
    /\ pc = "co_run"
    /\ page = Len(pages)
    /\ metadata_file' = metadata
    /\ outcome' = "returned"
    /\ pc' = "co_done"
    /\ UNCHANGED <<result, windowVars, gridVars, exportVars, pipelineVars,
                   pages, page, metadata, cutouts>>

\* ------------------------------------------------------------ specification

Init ==
    /\ pc = "idle"
    /\ outcome = "none"
    /\ result = <<>>
    /\ window_size = 0 /\ stride = 0 /\ limit = 0 /\ index = 0
    /\ windows = <<>>
    /\ left_window = SlidingWindow(0, 0)
    /\ right_window = SlidingWindow(0, 0)
    /\ image_width = 0 /\ image_height = 0
    /\ horizontal_stride = 0 /\ vertical_stride = 0
    /\ v_windows = <<>> /\ h_windows = <<>> /\ v_pos = 0 /\ h_pos = 0
    /\ yielded = <<>> /\ previous = <<>>
    /\ impl = "none"
    /\ point = <<0, 0>> /\ original_size = <<>> /\ export_size = <<>>
    /\ top_left = <<0, 0>> /\ bottom_right = <<0, 0>> /\ image_size = <<>>
    /\ label_index = 0 /\ labels_file = "none"
    /\ image_paths = <<>>
    /\ files = [f \in {} |-> <<>>]
    /\ script = "none"
    /\ args_image_size = <<>>
    /\ group = <<0, 0>>
    /\ processed = 0
    /\ current = NoAnnotation
    /\ original_size_dict = [n \in {} |-> <<>>]
    /\ labels_map = [l \in {} |-> 0]
    /\ images = {}
    /\ yaml = <<>>
    /\ pages = <<>>
    /\ page = 0
    /\ cutouts = {}
    /\ metadata = <<>>
    /\ metadata_file = <<>>

Next ==
    \/ CallSlidingWindows
    \/ SlidingLoopIteration
    \/ SlidingReturn
    \/ CallWindowCoordinates
    \/ WindowCoordinatesYield
    \/ WindowCoordinatesStop
    \/ WindowCoordinatesAgain
    \/ Reset

Spec == Init /\ [][Next]_vars

\* The while loop, once entered, goes on running: its test and its body are
\* executed one after the other by the one thread of the script.
SpecLive ==
    /\ Spec
    /\ WF_vars(SlidingLoopIteration)
    /\ WF_vars(SlidingReturn)

NextExport ==
    \/ CallScalePoint
    \/ CallBoundingBox
    \/ CallExportAnnotation
    \/ CallRoundTrip
    \/ CallGetExportFileNames
    \/ Reset

SpecExport == Init /\ [][NextExport]_vars

NextPipeline ==
    \/ StartLetters
    \/ ExportCollectionStep
    \/ FinishLetters
    \/ StartFull
    \/ ExportAnnotationsStep
    \/ FinishFull

SpecPipeline == Init /\ [][NextPipeline]_vars

NextCutouts ==
    \/ StartCutouts
    \/ ExportImageCutouts
    \/ SaveMetadata

SpecCutouts == Init /\ [][NextCutouts]_vars

\* ============================================================ claims C1 - C6

\* The index of the last iteration: the least i whose left window ends
\* beyond limit / 2.
StopIndex(size, step, lim) ==
    CHOOSE i \in 0..MaxIter :
        /\ 2 * (i * step + size) > lim
        /\ \A j \in 0..(i - 1) : 2 * (j * step + size) <= lim

\* C1: for window_size >= 1, stride >= 1 and limit >= 0 the list returned by
\* calculate_sliding_windows holds exactly the windows
\* left_i = (i*stride, i*stride + window_size) and
\* right_i = (limit - i*stride - window_size, limit - i*stride) for i = 0..k,
\* k the least i with i*stride + window_size > limit/2, each as often as it is
\* produced, and the list is ascending by window start.
C1_ExactWindows ==
    (pc = "sw_done" /\ stride >= 1) =>
        LET k == StopIndex(window_size, stride, limit)
            left(i) == [start |-> i * stride,
                        end |-> i * stride + window_size]
            right(i) == [start |-> limit - i * stride - window_size,
                         end |-> limit - i * stride]
            expected == {left(i) : i \in 0..k} \cup {right(i) : i \in 0..k}
            produced(w) == Cardinality({i \in 0..k : left(i) = w})
                           + Cardinality({i \in 0..k : right(i) = w})
            returned(w) == Cardinality({n \in 1..Len(result) : result[n] = w})
        IN  /\ Len(result) = 2 * (k + 1)
            /\ \A n \in 1..Len(result) : result[n] \in expected
            /\ \A w \in expected : returned(w) = produced(w)
            /\ \A n \in 1..(Len(result) - 1) :
                   result[n].start <= result[n + 1].start

\* A call with stride >= 1 that went through the loop three times or more.
C1_Witness ==
    /\ pc = "sw_done"
    /\ stride >= 1
    /\ Len(result) >= 6

\* C2: for window_size <= limit and stride >= 1 every returned window has
\* start >= 0.
C2_StartsNonNegative ==
    (pc = "sw_done" /\ stride >= 1 /\ window_size <= limit) =>
        \A n \in 1..Len(result) : result[n].start >= 0

\* C3: symmetry: with every window (s, e) the list returned for stride >= 1
\* holds the mirrored window (limit - e, limit - s).
C3_Symmetry ==
    (pc = "sw_done" /\ stride >= 1) =>
        \A n \in 1..Len(result) :
            \E m \in 1..Len(result) :
                result[m] = [start |-> limit - result[n].end,
                             end |-> limit - result[n].start]

\* A returned list of two iterations or more with a window that is not its
\* own mirror image.
C3_Witness ==
    /\ pc = "sw_done"
    /\ stride >= 1
    /\ Len(result) >= 4
    /\ \E n \in 1..Len(result) : result[n].start # limit - result[n].end

\* C4: a call with stride <= 0 fails: it never completes with a returned list
\* (and it does not loop forever).
C4_NonPositiveStrideFails ==
    (pc = "sw_done" /\ stride <= 0) => outcome = "raised"

\* With stride <= 0, a loop test that holds after an iteration holds after
\* every later iteration: the loop has no exit.
NonPositiveStrideLoopsOn ==
    [][(/\ pc = "sw_loop"
        /\ stride <= 0
        /\ index >= 1
        /\ LoopCondition(left_window.end, limit))
       => (pc' = "sw_loop" /\ LoopCondition(left_window'.end, limit'))]_vars

\* C5: the page 1024 x 768 with window_size 320, horizontal_stride 140 and
\* vertical_stride 160 yields 24 WindowCoordinates, 6 horizontal starts
\* 0, 140, 280, 424, 564, 704 for each of the 4 vertical starts
\* 0, 160, 288, 448; the first is (0, 0, 320, 320), the last
\* (704, 448, 1024, 768).
C5_Fixture ==
    (/\ pc = "wc_done"
     /\ image_width = 1024 /\ image_height = 768 /\ window_size = 320
     /\ horizontal_stride = 140 /\ vertical_stride = 160) =>
        LET h_starts == <<0, 140, 280, 424, 564, 704>>
            v_starts == <<0, 160, 288, 448>>
        IN  /\ Len(result) = 24
            /\ result[1] = [top_left_x |-> 0, top_left_y |-> 0,
                            bottom_right_x |-> 320, bottom_right_y |-> 320]
            /\ result[24] = [top_left_x |-> 704, top_left_y |-> 448,
                             bottom_right_x |-> 1024, bottom_right_y |-> 768]
            /\ \A n \in 1..24 :
                   /\ result[n].top_left_x = h_starts[((n - 1) % 6) + 1]
                   /\ result[n].top_left_y = v_starts[((n - 1) \div 6) + 1]
                   /\ result[n].bottom_right_x = result[n].top_left_x + 320
                   /\ result[n].bottom_right_y = result[n].top_left_y + 320

\* The generator has run to its end on the page of the scenario.
C5_Witness ==
    /\ pc = "wc_done"
    /\ image_width = 1024 /\ image_height = 768 /\ window_size = 320
    /\ horizontal_stride = 140 /\ vertical_stride = 160
    /\ Len(result) > 0

\* C6: calculate_window_coordinates yields one WindowCoordinates
\* (h.start, v.start, h.end, v.end) for every pair of a vertical window v and
\* a horizontal window h, |V| * |H| in all, the vertical windows in the outer
\* loop and the horizontal ones in the inner loop, each ascending by start; a
\* second call with the same arguments yields the same sequence.
C6_Grid ==
    (pc = "wc_done") =>
        LET V == calculate_sliding_windows(window_size, vertical_stride,
                                           image_height)
            H == calculate_sliding_windows(window_size, horizontal_stride,
                                           image_width)
        IN  /\ Len(result) = Len(V) * Len(H)
            /\ \A vi \in 1..Len(V) : \A hi \in 1..Len(H) :
                   result[(vi - 1) * Len(H) + hi] =
                       [top_left_x |-> H[hi].start, top_left_y |-> V[vi].start,
                        bottom_right_x |-> H[hi].end,
                        bottom_right_y |-> V[vi].end]
            /\ \A n \in 1..(Len(V) - 1) : V[n].start <= V[n + 1].start
            /\ \A n \in 1..(Len(H) - 1) : H[n].start <= H[n + 1].start
            /\ (previous # <<>> => result = previous)

\* The second of two calls has ended, on a page whose two axes differ.
C6_Witness ==
    /\ pc = "wc_done"
    /\ previous # <<>>
    /\ image_width # image_height
    /\ horizontal_stride # vertical_stride
    /\ Len(result) >= 8

\* =========================================================== claims C7 - C10

IsSize(size) == Len(size) = 2 /\ size[1] > 0 /\ size[2] > 0

\* C7: scale_point is the identity when original_size equals export_size: for
\* every point and every (width, height) size with positive components,
\* scale_point(point, size, size) = point.
C7_ScalePointIdentity ==
    (pc = "sp_done" /\ IsSize(original_size) /\ original_size = export_size)
        => (outcome = "returned" /\ result = point)

\* What holds of C7 for the function of exportutils.py alone.
ScalePointIdentityInExportutils ==
    (/\ pc = "sp_done" /\ impl = "exportutils"
     /\ IsSize(original_size) /\ original_size = export_size)
        => (outcome = "returned" /\ result = point)

\* C8: for a point with 0 <= x <= original_width and 0 <= y <= original_height
\* scale_point returns (x', y') with 0 <= x' <= export_width and
\* 0 <= y' <= export_height.
C8_ScaledPointInRange ==
    (/\ pc = "sp_done"
     /\ IsSize(original_size) /\ IsSize(export_size)
     /\ 0 <= point[1] /\ 0 <= point[2]
     /\ point[1] <= original_size[1] /\ point[2] <= original_size[2])
        => /\ outcome = "returned"
           /\ 0 <= result[1] /\ result[1] <= export_size[1]
           /\ 0 <= result[2] /\ result[2] <= export_size[2]

\* What holds of C8 for the function of exportutils.py alone.
ScaledPointInRangeInExportutils ==
    (/\ pc = "sp_done" /\ impl = "exportutils"
     /\ IsSize(original_size) /\ IsSize(export_size)
     /\ 0 <= point[1] /\ 0 <= point[2]
     /\ point[1] <= original_size[1] /\ point[2] <= original_size[2])
        => /\ outcome = "returned"
           /\ 0 <= result[1] /\ result[1] <= export_size[1]
           /\ 0 <= result[2] /\ result[2] <= export_size[2]

\* C9: calculate_bounding_box((x1, y1), (x2, y2), (W, H)) returns
\* center = ((x1 + x2) / (2W), (y1 + y2) / (2H)) and
\* dimensions = ((x2 - x1) / W, (y2 - y1) / H), unrounded, in exportutils.py
\* and in utils/exportutils.py.
C9_BoundingBox ==
    (pc = "bb_done") =>
        LET x1 == top_left[1]
            y1 == top_left[2]
            x2 == bottom_right[1]
            y2 == bottom_right[2]
            W == image_size[1]
            H == image_size[2]
            center == result[1]
            dimensions == result[2]
        IN  /\ outcome = "returned"
            /\ center[1][2] > 0 /\ center[2][2] > 0
            /\ dimensions[1][2] > 0 /\ dimensions[2][2] > 0
            /\ RatEq(center[1], <<x1 + x2, 2 * W>>)
            /\ RatEq(center[2], <<y1 + y2, 2 * H>>)
            /\ RatEq(dimensions[1], <<x2 - x1, W>>)
            /\ RatEq(dimensions[2], <<y2 - y1, H>>)

\* A box of exportutils.py away from the origin whose centre is no whole pixel.
C9_Witness ==
    /\ pc = "bb_done"
    /\ impl = "exportutils"
    /\ top_left[1] > 0 /\ top_left[2] > 0
    /\ (top_left[1] + bottom_right[1]) % 2 = 1
    /\ (top_left[2] + bottom_right[2]) % 2 = 1
    /\ bottom_right[1] > top_left[1] /\ bottom_right[2] > top_left[2]

InUnitRange(q) == q[2] > 0 /\ 0 <= q[1] /\ q[1] <= q[2]

\* C10: for an annotation rectangle inside its original image
\* (0 <= x1 <= x2 <= original_width, 0 <= y1 <= y2 <= original_height),
\* export_yolov5_annotation writes a label line whose center_x, center_y,
\* width and height are all in [0, 1].
C10_LabelFieldsInUnitRange ==
    (/\ pc = "ex_done"
     /\ top_left[1] <= bottom_right[1] /\ bottom_right[1] <= original_size[1]
     /\ top_left[2] <= bottom_right[2] /\ bottom_right[2] <= original_size[2])
        => /\ outcome = "returned"
           /\ Len(Lines(files, labels_file)) > 0
           /\ LET line == Lines(files, labels_file)[Len(Lines(files, labels_file))]
              IN  /\ InUnitRange(line.x) /\ InUnitRange(line.y)
                  /\ InUnitRange(line.w) /\ InUnitRange(line.h)

\* No call of export_yolov5_annotation with the (width, height) pair of
\* get_cv2_image_size gets as far as the file: every one raises in scale_point.
ExportAnnotationAlwaysRaises ==
    (pc = "ex_done") => (outcome = "raised" /\ DOMAIN files = {})

\* ========================================================== claims C11 - C20

\* C11: the export pipeline never appends a label line whose width or height
\* is 0, neither for a rectangle of no area nor for one that collapses when it
\* is scaled and rounded.
C11_NoDegenerateLine ==
    \A f \in DOMAIN files :
        \A n \in 1..Len(files[f]) :
            files[f][n].w[1] # 0 /\ files[f][n].h[1] # 0

\* The call leaves the file `name` one line longer, the lines it had in
\* place, and every other file as it was.
AppendedOneLine(fs, after, name) ==
    /\ DOMAIN after = DOMAIN fs \cup {name}
    /\ Len(after[name]) = Len(Lines(fs, name)) + 1
    /\ SubSeq(after[name], 1, Len(Lines(fs, name))) = Lines(fs, name)
    /\ \A f \in DOMAIN fs \ {name} : after[f] = fs[f]

\* C12: every call of export_yolov5_annotation on a labels_file adds exactly
\* one line at the end of that file and changes nothing else in the files.
C12_AppendSemantics ==
    [][pc' = "ex_done" => AppendedOneLine(files, files', labels_file')]_vars

\* What holds of C12 for export_bounding_boxes of
\* export-yolov5-annotations.py.
ExportBoundingBoxesAppends ==
    [][(script' = "letters" /\ outcome' = "exported") =>
          AppendedOneLine(
              files, files',
              <<Directories[group'[2]],
                get_export_file_names(current'.file_name).labels_name>>)]_vars

Distance(a, b) == IF a >= b THEN a - b ELSE b - a

\* C13: for a rectangle (x1, y1)-(x2, y2), x1 <= x2, y1 <= y2, inside an
\* image of size (W, H), calculate_bounding_box followed by
\* translate_coordinates gives back corners that differ from the original
\* ones by at most 1 in each coordinate.
C13_RoundTrip ==
    (/\ pc = "rt_done"
     /\ top_left[1] <= bottom_right[1] /\ bottom_right[1] <= image_size[1]
     /\ top_left[2] <= bottom_right[2] /\ bottom_right[2] <= image_size[2])
        => /\ Distance(result[1][1], top_left[1]) <= 1
           /\ Distance(result[1][2], top_left[2]) <= 1
           /\ Distance(result[2][1], bottom_right[1]) <= 1
           /\ Distance(result[2][2], bottom_right[2]) <= 1

\* A box of positive area inside the image, off the origin, whose centre is
\* no whole pixel.
C13_Witness ==
    /\ pc = "rt_done"
    /\ 0 < top_left[1] /\ top_left[1] < bottom_right[1]
    /\ bottom_right[1] <= image_size[1]
    /\ 0 < top_left[2] /\ top_left[2] < bottom_right[2]
    /\ bottom_right[2] <= image_size[2]
    /\ (top_left[1] + bottom_right[1]) % 2 = 1

\* C14: labels_map gives 0 to the first label a box is exported for and the
\* next integer to every later new label, in the order they are met; it is a
\* bijection from the labels onto 0..n-1, and an index once given stays.
C14_LabelIndexMap ==
    [][/\ \A l \in DOMAIN labels_map :
              l \in DOMAIN labels_map' /\ labels_map'[l] = labels_map[l]
       /\ \A l \in DOMAIN labels_map' \ DOMAIN labels_map :
              /\ l = current'.letter
              /\ labels_map'[l] = Cardinality(DOMAIN labels_map)
              /\ outcome' = "exported"
       /\ Cardinality(DOMAIN labels_map') <= Cardinality(DOMAIN labels_map) + 1
       /\ {labels_map'[l] : l \in DOMAIN labels_map'} =
              0..(Cardinality(DOMAIN labels_map') - 1)]_vars

\* Two labels have got their indices, and a third annotation has left them.
C14_Witness ==
    /\ pc = "pl_run"
    /\ Cardinality(DOMAIN labels_map) = 2
    /\ processed >= 3

\* C15: the dataset description file lists the labels in the order of their
\* indices: names[i] is the label of index i (from 0), and nc is the number
\* of labels of labels_map.
C15_DatasetDescription ==
    (pc = "pl_done") =>
        /\ yaml.nc = Cardinality(DOMAIN labels_map)
        /\ Len(yaml.names) = yaml.nc
        /\ \A i \in 1..Len(yaml.names) :
               /\ yaml.names[i] \in DOMAIN labels_map
               /\ labels_map[yaml.names[i]] = i - 1

\* The file of a run that has met two labels.
C15_Witness ==
    /\ pc = "pl_done"
    /\ yaml.nc = 2

\* The rows the CSV file holds for the path.
RowsOf(path) ==
    {k \in 1..Len(metadata_file) :
        \E idx \in 0..Len(metadata_file) :
            metadata_file[k].window_name = WindowFileName(path, idx)}

\* C16: an image of the input directory that cannot be read is skipped: it
\* gives no rows, the run does not crash, and every other page is still
\* processed and its rows saved.
C16_UnreadableImageSkipped ==
    /\ pc # "co_crashed"
    /\ pc = "co_done" =>
          \A k \in 1..Len(pages) :
              IF read_image_grayscale(pages[k]).raised
              THEN RowsOf(pages[k]) = {}
              ELSE RowsOf(pages[k]) # {}

\* What holds of C16: the run crashes exactly when the loop of main takes a
\* path that cannot be read, a crashed run never writes the CSV file, and a
\* run that ends has saved the rows of every path of the directory.
UnreadableImageCrashes ==
    /\ (pc = "co_crashed") =>
          /\ read_image_grayscale(pages[page]).raised
          /\ metadata_file = <<>>
    /\ (pc = "co_run" /\ page > 0) =>
          ~read_image_grayscale(pages[page]).raised
    /\ (pc = "co_done") =>
          \A k \in 1..Len(pages) :
              /\ ~read_image_grayscale(pages[k]).raised
              /\ RowsOf(pages[k]) # {}

\* C17: in export_annotations and export_collection an annotation whose
\* source image cannot be exported is skipped: it writes no label line, gets
\* no label index, and the loop goes on to the next annotation.
C17_UnexportableSkipped ==
    (/\ pc \in {"pl_run", "pl_aborted"}
     /\ current # NoAnnotation
     /\ OpenError(current.file_name) # "none")
        => (pc = "pl_run" /\ outcome = "skipped")

\* What holds of C17: in export_collection a path with no file, or with a
\* directory, is skipped, and a skipped annotation changes neither the label
\* files, nor labels_map, nor the images, nor the image sizes.
MissingFileSkippedInExportCollection ==
    /\ []((/\ script = "letters"
           /\ pc \in {"pl_run", "pl_aborted"}
           /\ current # NoAnnotation
           /\ OpenError(current.file_name)
                 \in {"FileNotFoundError", "IsADirectoryError"})
              => (pc = "pl_run" /\ outcome = "skipped"))
    /\ [][(script' = "letters" /\ outcome' = "skipped") =>
             UNCHANGED <<files, labels_map, images, original_size_dict>>]_vars

\* export_annotations never gets a label line written or a label index given.
ExportAnnotationsWritesNothing ==
    (script = "full") => (DOMAIN files = {} /\ DOMAIN labels_map = {})

\* C18: the loop of calculate_sliding_windows goes on while the end of the
\* latest left window is <= limit/2, the exact half (2*end <= limit): a left
\* window that ends at limit/2 exactly is followed by one more left/right
\* pair, and the loop stops only at a left end beyond limit/2.
C18_LoopCondition ==
    (pc \in {"sw_loop", "sw_done"}) =>
        /\ Len(windows) = 2 * index
        /\ \A j \in 1..(index - 1) : 2 * windows[2 * j - 1].end <= limit
        /\ (pc = "sw_done") =>
               /\ index >= 1
               /\ 2 * windows[2 * index - 1].end > limit

\* A call that has returned, whose last left window but one ends at limit/2
\* exactly.
C18_Witness ==
    /\ pc = "sw_done"
    /\ index >= 2
    /\ 2 * windows[2 * index - 3].end = limit

\* C19: for limit >= 1, stride >= 1 and window_size >= limit the function
\* runs one iteration and returns two windows, (limit - window_size, limit)
\* and (0, window_size); for window_size = limit they are the same window
\* (0, limit), returned twice.
C19_WindowNotSmallerThanLimit ==
    (pc = "sw_done" /\ limit >= 1 /\ stride >= 1 /\ window_size >= limit) =>
        /\ index = 1
        /\ result = <<SlidingWindow(limit - window_size, limit),
                      SlidingWindow(0, window_size)>>
        /\ (window_size = limit) =>
               result = <<SlidingWindow(0, limit), SlidingWindow(0, limit)>>

\* A call with window_size = limit has returned.
C19_Witness ==
    /\ pc = "sw_done"
    /\ limit >= 1
    /\ stride >= 1
    /\ window_size = limit

MultipleOfStride(n) == \E k \in (-MaxIter)..MaxIter : n = k * stride

\* C20: every window returned by calculate_sliding_windows has
\* end - start = window_size; the start of every left window is a multiple of
\* stride and, for every right window, limit - end is a multiple of stride.
C20_LengthAndAlignment ==
    (pc = "sw_done") =>
        /\ \A n \in 1..Len(result) :
               /\ result[n].end - result[n].start = window_size
               /\ Cardinality({m \in 1..Len(result) : result[m] = result[n]})
                      = Cardinality({m \in 1..Len(windows) :
                                        windows[m] = result[n]})
        /\ Len(result) = Len(windows)
        /\ \A j \in 1..index :
               /\ MultipleOfStride(windows[2 * j - 1].start)
               /\ MultipleOfStride(limit - windows[2 * j].end)

\* A call with a stride of 2 or more that went through the loop twice and
\* whose last right window starts left of 0.
C20_Witness ==
    /\ pc = "sw_done"
    /\ stride >= 2
    /\ index >= 2
    /\ \E n \in 1..Len(result) : result[n].start < 0

\* ========================================================== claims C21 - C30

\* C21: full coverage: for 1 <= stride <= window_size and limit >= 1, a
\* multiple of stride or not, every integer position p, 0 <= p < limit, lies
\* in a returned window (start <= p < end).
C21_FullCoverage ==
    (pc = "sw_done" /\ 1 <= stride /\ stride <= window_size /\ limit >= 1) =>
        \A p \in 0..(limit - 1) :
            \E n \in 1..Len(result) :
                result[n].start <= p /\ p < result[n].end

\* A call of two iterations or more on a limit that is no multiple of a
\* stride of 2 or more.
C21_Witness ==
    /\ pc = "sw_done"
    /\ 2 <= stride /\ stride <= window_size
    /\ limit % stride # 0
    /\ index >= 2

\* C22: for stride >= 1, window_size >= 1 and limit >= 0
\* calculate_sliding_windows terminates, and the number of windows it returns
\* is even and equals 2*(k+1), k the least i >= 0 with
\* i*stride + window_size > limit/2; so calculate_window_coordinates yields a
\* finite sequence.
C22_Terminates ==
    /\ []((pc = "sw_done" /\ stride >= 1) =>
             /\ Len(result) % 2 = 0
             /\ Len(result) = 2 * (StopIndex(window_size, stride, limit) + 1))
    /\ []((pc \in {"wc_run", "wc_done"}) =>
             Len(yielded) <=
                 Len(calculate_sliding_windows(window_size, vertical_stride,
                                               image_height))
                 * Len(calculate_sliding_windows(window_size,
                                                 horizontal_stride,
                                                 image_width)))
    /\ (pc = "sw_loop" /\ stride >= 1) ~> (pc = "sw_done")

\* A call with a stride of 2 or more has returned four windows on an odd
\* limit.
C22_Witness ==
    /\ pc = "sw_done"
    /\ stride >= 2
    /\ limit % 2 = 1
    /\ Len(result) = 4

\* C23: scale_point takes original_size and export_size as (width, height)
\* pairs: x is multiplied by export_width / original_width and y by
\* export_height / original_height; export_yolov5_annotation, called with the
\* pair get_cv2_image_size returned, completes and uses these factors.
C23_ScalePointTakesPairs ==
    /\ (pc = "sp_done" /\ impl = "utils.exportutils"
        /\ Len(original_size) = 2) =>
           /\ outcome = "returned"
           /\ result = <<RoundProduct(point[1], export_size[1],
                                      original_size[1]),
                         RoundProduct(point[2], export_size[2],
                                      original_size[2])>>
    /\ (pc = "ex_done") => outcome = "returned"

\* What utils.exportutils.scale_point does: it returns only for a sequence of
\* three, and takes its second element for the width.
UtilsScalePointTakesShapes ==
    (pc = "sp_done" /\ impl = "utils.exportutils") =>
        IF Len(original_size) = 3
        THEN /\ outcome = "returned"
             /\ result = <<RoundProduct(point[1], export_size[1],
                                        original_size[2]),
                           RoundProduct(point[2], export_size[2],
                                        original_size[1])>>
        ELSE outcome = "raised"

\* C24: scale_point and scale_coordinates round each scaled coordinate
\* x * export_dim / original_dim to the nearest integer, and a value halfway
\* between two integers to the even one, never half-up.
C24_RoundHalfToEven ==
    (pc = "sp_done" /\ impl = "exportutils" /\ outcome = "returned") =>
        result = <<Round(point[1] * export_size[1], original_size[1]),
                   Round(point[2] * export_size[2], original_size[2])>>

\* What holds of C24: the result is never further than half a pixel from the
\* exact scaled coordinate.
ScaledPointIsNearest ==
    (pc = "sp_done" /\ impl = "exportutils" /\ outcome = "returned") =>
        \A i \in 1..2 :
            2 * Abs(result[i] * original_size[i] - point[i] * export_size[i])
                <= original_size[i]

\* C25: in export-yolov5-annotations.py the line export_bounding_boxes writes
\* for a rectangle has the centre ((x1 + x2) / (2W), (y1 + y2) / (2H)) of the
\* scaled rectangle, not rounded: its calculate_bounding_box returns what
\* calculate_bounding_box of exportutils.py returns.
C25_CenterIsMidpoint ==
    (script = "letters" /\ pc = "pl_run" /\ outcome = "exported") =>
        LET names == get_export_file_names(current.file_name)
            written == files[<<Directories[group[2]], names.labels_name>>]
            line == written[Len(written)]
            scaled == scale_coordinates(
                          <<current.coords[1], current.coords[2]>>,
                          <<current.coords[3], current.coords[4]>>,
                          original_size_dict[names.image_name],
                          args_image_size)
            box == calculate_bounding_box(scaled[1], scaled[2],
                                          args_image_size)
        IN  /\ RatEq(line.x, box[1][1])
            /\ RatEq(line.y, box[1][2])
            /\ RatEq(line.w, box[2][1])
            /\ RatEq(line.h, box[2][2])

\* What holds of C25: the dimensions of the line are those of
\* exportutils.py, and the centre is the rounded half of the extent of the
\* scaled rectangle, whatever its top-left corner.
LettersCenterIsRoundedHalfExtent ==
    (script = "letters" /\ pc = "pl_run" /\ outcome = "exported") =>
        LET names == get_export_file_names(current.file_name)
            written == files[<<Directories[group[2]], names.labels_name>>]
            line == written[Len(written)]
            scaled == scale_coordinates(
                          <<current.coords[1], current.coords[2]>>,
                          <<current.coords[3], current.coords[4]>>,
                          original_size_dict[names.image_name],
                          args_image_size)
            box == calculate_bounding_box(scaled[1], scaled[2],
                                          args_image_size)
        IN  /\ RatEq(line.w, box[2][1])
            /\ RatEq(line.h, box[2][2])
            /\ RatEq(line.x, <<Round(scaled[2][1] - scaled[1][1], 2),
                               args_image_size[1]>>)
            /\ RatEq(line.y, <<Round(scaled[2][2] - scaled[1][2], 2),
                               args_image_size[2]>>)

\* C26: whatever the order of the annotations, after export_annotations the
\* label file of every exported image holds one line for each annotation of
\* that image, in the order they were taken, and no line of another image:
\* every annotation of an exported image adds one line at the end of the
\* label file of its image and changes no other file.
C26_OneLinePerAnnotation ==
    [][(/\ script' = "full"
        /\ processed' = processed + 1
        /\ <<"staging", get_export_file_names(current'.file_name).image_name>>
               \in images')
          => AppendedOneLine(
                 files, files',
                 <<"staging",
                   get_export_file_names(current'.file_name).labels_name>>)
      ]_vars

\* The rows C27 states for a readable page: one for each WindowCoordinates
\* of calculate_window_coordinates, in its order, named with the two-digit
\* position counted from 0.
ExpectedRows(path) ==
    LET shape == imread(path).shape
        width == shape[2]
        height == shape[1]
        coordinates == calculate_window_coordinates(
                           width, height, window_size, horizontal_stride,
                           vertical_stride)
    IN  [k \in 1..Len(coordinates) |->
            [image_width |-> width,
             image_height |-> height,
             window_name |->
                 path.dirs[Len(path.dirs)] \o <<"-">> \o path.stem
                     \o <<"-w", DecimalDigit((k - 1) \div 10),
                          DecimalDigit((k - 1) % 10), ".png">>,
             window_size |-> window_size,
             top_left_x |-> coordinates[k].top_left_x,
             top_left_y |-> coordinates[k].top_left_y,
             bottom_right_x |-> coordinates[k].bottom_right_x,
             bottom_right_y |-> coordinates[k].bottom_right_y]]

RECURSIVE ExpectedMetadata(_)
ExpectedMetadata(n) ==
    IF n = 0 THEN <<>>
    ELSE ExpectedMetadata(n - 1) \o ExpectedRows(pages[n])

C28_CropsInside ==
    /\ (/\ pc = "sw_done"
        /\ window_size <= limit
        /\ 1 <= stride /\ 2 * stride <= limit)
          => \A n \in 1..Len(result) :
                 0 <= result[n].start /\ result[n].end <= limit
    /\ (/\ pc \in {"wc_run", "wc_done"}
        /\ window_size <= image_width /\ window_size <= image_height
        /\ 2 * horizontal_stride <= image_width
        /\ 2 * vertical_stride <= image_height)
          => \A n \in 1..Len(yielded) :
                 /\ 0 <= yielded[n].top_left_x
                 /\ yielded[n].bottom_right_x <= image_width
                 /\ 0 <= yielded[n].top_left_y
                 /\ yielded[n].bottom_right_y <= image_height

\* A generator on a page wider than high has run to its end with a
\* horizontal stride of half the width, and a window of it ends at the right
\* edge.
C28_Witness ==
    /\ pc = "wc_done"
    /\ image_width > image_height
    /\ window_size <= image_height
    /\ horizontal_stride >= 2 /\ 2 * horizontal_stride = image_width
    /\ 2 * vertical_stride <= image_height
    /\ \E n \in 1..Len(yielded) : yielded[n].bottom_right_x = image_width

\* C29: in export-yolov5-annotations.py, after any sequence of
\* export_collection calls of a run, every label file written into train or
\* val has its exported image in the same directory.
C29_LabelFileHasImage ==
    (script = "letters") =>
        \A f \in DOMAIN files :
            \E path \in SourcePages :
                /\ get_export_file_names(path).labels_name = f[2]
                /\ <<f[1], get_export_file_names(path).image_name>> \in images

\* What holds of C29: the image of every label file is in at least one of the
\* two directories.
LabelFileHasImageSomewhere ==
    (script = "letters") =>
        \A f \in DOMAIN files :
            \E path \in SourcePages, d \in 1..Len(Directories) :
                /\ get_export_file_names(path).labels_name = f[2]
                /\ <<Directories[d], get_export_file_names(path).image_name>>
                       \in images

\* C30: get_export_file_names gives distinct source image paths distinct
\* image names and distinct label file names, so the annotations of two
\* source pages never go to one label file, or over one image file, in a
\* destination directory.
C30_DistinctNames ==
    (pc = "fn_done" /\ image_paths[1] # image_paths[2]) =>
        /\ result[1].image_name # result[2].image_name
        /\ result[1].labels_name # result[2].labels_name

\* What holds of C30: the names are those of the last directory and of the
\* stem, so two paths get one name when they agree in both.
NamesOfParentAndStem ==
    (pc = "fn_done") =>
        ((result[1] = result[2]) <=>
            /\ image_paths[1].stem = image_paths[2].stem
            /\ image_paths[1].dirs[Len(image_paths[1].dirs)]
                   = image_paths[2].dirs[Len(image_paths[2].dirs)])

====
